---------------------------- MODULE Spec2Model ----------------------------
(***************************************************************************)
(* Model of combo_map_2.py: the batch aggregation of the cleaned crime     *)
(* records into per-division summaries and crime rankings, and the figure  *)
(* with its two dropdown menus (year, division) whose buttons restyle the  *)
(* choropleth trace and the ranking table.                                 *)
(*                                                                         *)
(* Encodings.  A Python str is a sequence of character codes (ASCII), so   *)
(* that upper(), strip(), the `in` substring test and the lexicographic    *)
(* order used by groupby/sorted are computed, not assumed.  A cell that    *)
(* may be None/NaN is a record: a description is [isstr, s]; a float is    *)
(* [nan, num, den] (the rational num/den).  The year_map_data /            *)
(* city_rank_year key "ALL" is the number ALL, which is no calendar year.  *)
(***************************************************************************)
EXTENDS Integers, Sequences, FiniteSets, TLC

(***************************************************************************)
(* Bounds of the model.                                                    *)
(***************************************************************************)
MaxRecords == 2
MaxFeatures == 2

(***************************************************************************)
(* Python strings.                                                         *)
(***************************************************************************)
\* str.upper(): a..z (97..122) become A..Z, every other character is kept.
upper(s) == [i \in 1..Len(s) |-> IF s[i] \in 97..122 THEN s[i] - 32 ELSE s[i]]

\* The characters str.strip() removes: space and \t \n \v \f \r.
Whitespace == {32} \cup (9..13)

\* str.strip(): drop leading and trailing whitespace.
strip(s) ==
    LET keep == {i \in 1..Len(s) : s[i] \notin Whitespace}
    IN IF keep = {} THEN <<>>
       ELSE LET lo == CHOOSE i \in keep : \A j \in keep : i <= j
                hi == CHOOSE i \in keep : \A j \in keep : j <= i
            IN SubSeq(s, lo, hi)

\* k in u: k occurs in u as a contiguous substring.
Contains(u, k) ==
    \E i \in 0..(Len(u) - Len(k)) : SubSeq(u, i + 1, i + Len(k)) = k

\* a < b in Python's (lexicographic, by character code) order of str.
StrLess(a, b) ==
    \E i \in 1..(Len(a) + 1) :
        /\ i <= Len(b)
        /\ \A j \in 1..(i - 1) : a[j] = b[j]
        /\ (i = Len(a) + 1 \/ a[i] < b[i])

\* A description cell: text, or None (the CSV cell was empty).
Str(s) == [isstr |-> TRUE, s |-> s]
None == [isstr |-> FALSE, s |-> <<>>]

(***************************************************************************)
(* Classifier.                                                             *)
(***************************************************************************)
VIOLENT_KEYS ==
    << <<65,83,83,65,85,76,84>>,                              \* ASSAULT
       <<82,79,66,66,69,82,89>>,                              \* ROBBERY
       <<72,79,77,73,67,73,68,69>>,                           \* HOMICIDE
       <<77,65,78,83,76,65,85,71,72,84,69,82>>,               \* MANSLAUGHTER
       <<82,65,80,69>>,                                       \* RAPE
       <<83,69,88,85,65,76>>,                                 \* SEXUAL
       <<80,69,78,69,84,82,65,84,73,79,78>>,                  \* PENETRATION
       <<79,82,65,76,32,67,79,80,85,76,65,84,73,79,78>>,      \* ORAL COPULATION
       <<83,79,68,79,77,89>>,                                 \* SODOMY
       <<66,82,65,78,68,73,83,72,32,87,69,65,80,79,78>>,      \* BRANDISH WEAPON
       <<83,72,79,84,83,32,70,73,82,69,68>> >>                \* SHOTS FIRED

is_violent(desc) ==
    IF ~desc.isstr THEN 0
    ELSE LET u == upper(desc.s)
         IN IF \E i \in 1..Len(VIOLENT_KEYS) : Contains(u, VIOLENT_KEYS[i])
            THEN 1 ELSE 0

\* The Category column of a ranking row.
Category(desc) == IF is_violent(desc) = 1 THEN "Violent" ELSE "Property"

(***************************************************************************)
(* Inputs: the rows of the CSV that survive the filters, and the boundary  *)
(* features of the GeoJSON.                                                *)
(***************************************************************************)
\* "AREA NAME" cells as they stand in the CSV.
RawAreaNames ==
    { <<32,67,101,110,116,114,97,108>>,       \* " Central"
      <<87,101,115,116,32,76,65>> }           \* "West LA"

\* "Crm Cd Desc" cells.
RawDescs ==
    { Str(<<82,111,98,98,101,114,121>>),      \* "Robbery"
      Str(<<66,85,82,71,76,65,82,89>>),       \* "BURGLARY"
      None }

\* Years of occurrence among the rows ("2020 to Present": 2025 is past YEARS).
RawYears == {2023, 2025}

\* "APREC" properties of the boundary features.
RawFeatureNames ==
    { <<67,69,78,84,82,65,76>>,               \* "CENTRAL"
      <<84,111,112,97,110,103,97,32>> }       \* "Topanga "

RawRows == [area : RawAreaNames, Year : RawYears, desc : RawDescs]


\* An order of the raw rows: by area, then year, then description (None first).
RowLeq(a, b) ==
    \/ StrLess(a.area, b.area)
    \/ /\ a.area = b.area
       /\ \/ a.Year < b.Year
          \/ /\ a.Year = b.Year
             /\ \/ ~a.desc.isstr
                \/ b.desc.isstr /\ (a.desc.s = b.desc.s \/ StrLess(a.desc.s, b.desc.s))

\* The rows a run may be given: at most MaxRecords of them.  The script only
\* ever groups, filters and counts the rows, so their order in the file is
\* immaterial and each multiset of rows is taken once, in RowLeq order.
RawFrames ==
    UNION {{f \in [1..n -> RawRows] : \A i \in 1..(n - 1) : RowLeq(f[i], f[i + 1])} :
              n \in 0..MaxRecords}

\* The feature lists a run may be given: one to MaxFeatures features (the same
\* name may stand on more than one feature).
RawFeatureLists == UNION {[1..n -> RawFeatureNames] : n \in 1..MaxFeatures}

\* Lines 66 and 71: the Violent column, and "AREA NAME" stripped and uppercased.
CleanRow(r) ==
    [AREA_NAME |-> upper(strip(r.area)),
     Year |-> r.Year,
     Crm_Cd_Desc |-> r.desc,
     Violent |-> is_violent(r.desc)]

CleanFrame(raw) == [i \in 1..Len(raw) |-> CleanRow(raw[i])]

\* Lines 92-94 and 112: APREC_UP of every feature, in feature order.
NormalizeFeatures(names) == [i \in 1..Len(names) |-> upper(strip(names[i]))]

YEARS == <<2020, 2021, 2022, 2023, 2024>>

\* The key "ALL" of year_map_data and city_rank_year.
ALL == 0

(***************************************************************************)
(* Floats (the columns of a merged frame).                                 *)
(***************************************************************************)
RECURSIVE GCD(_, _)
GCD(a, b) == IF b = 0 THEN a ELSE GCD(b, a % b)

F(n) == [nan |-> FALSE, num |-> n, den |-> 1]
NaN == [nan |-> TRUE, num |-> 0, den |-> 1]

\* a / b on floats: 0/0 and anything with NaN is NaN, x/0 is +-inf (den = 0).
Div(a, b) ==
    IF a.nan \/ b.nan THEN NaN
    ELSE LET n == a.num * b.den
             d == a.den * b.num
         IN IF d = 0
            THEN (IF n = 0 THEN NaN
                  ELSE [nan |-> FALSE, num |-> IF n > 0 THEN 1 ELSE -1, den |-> 0])
            ELSE LET s == IF d < 0 THEN -1 ELSE 1
                     g == GCD(IF n < 0 THEN -n ELSE n, s * d)
                 IN [nan |-> FALSE, num |-> (s * n) \div g, den |-> (s * d) \div g]

\* a - b on the count columns (finite or NaN).
Sub(a, b) ==
    IF a.nan \/ b.nan THEN NaN
    ELSE Div(F(a.num * b.den - b.num * a.den), F(a.den * b.den))

\* fillna left out: the NaN stays in the column.
fillna_Skipped(x, v) == x

\* Series.fillna(v)
fillna(x, v) == IF x.nan THEN F(v) ELSE x

\* Series.clip(lower=lo)
clip_lower(x, lo) == IF ~x.nan /\ x.num < lo * x.den THEN F(lo) ELSE x

(***************************************************************************)
(* groupby / agg.                                                          *)
(***************************************************************************)
RECURSIVE SortedStrings(_)
\* sorted(S) for a set of str.
SortedStrings(S) ==
    IF S = {} THEN <<>>
    ELSE LET m == CHOOSE x \in S : \A y \in S \ {x} : StrLess(x, y)
         IN <<m>> \o SortedStrings(S \ {m})

RECURSIVE SortedInts(_)
SortedInts(S) ==
    IF S = {} THEN <<>>
    ELSE LET m == CHOOSE x \in S : \A y \in S : x <= y
         IN <<m>> \o SortedInts(S \ {m})

RECURSIVE Concat(_)
\* The concatenation of a sequence of sequences.
Concat(ss) == IF ss = <<>> THEN <<>> ELSE Head(ss) \o Concat(Tail(ss))

RECURSIVE Sum(_)
Sum(xs) == IF xs = <<>> THEN 0 ELSE Head(xs) + Sum(Tail(xs))

Areas(frame) == {frame[i].AREA_NAME : i \in 1..Len(frame)}
YearsOf(frame) == {frame[i].Year : i \in 1..Len(frame)}

\* agg(total=("Crm Cd Desc","count"), violent=("Violent","sum")) of one group:
\* "count" counts the cells that are not null, "sum" adds the Violent column.
AggCounts(rows) ==
    [total |-> Len(SelectSeq(rows, LAMBDA r : r.Crm_Cd_Desc.isstr)),
     violent |-> Sum([i \in 1..Len(rows) |-> rows[i].Violent])]

\* df.groupby(["AREA NAME","Year"]).agg(...).reset_index(), APREC renamed:
\* one row per (area, year) that occurs, ordered by the sorted keys.
df_year_area_of(frame) ==
    LET as == SortedStrings(Areas(frame))
        GroupsOf(a) ==
            LET rowsA == SelectSeq(frame, LAMBDA r : r.AREA_NAME = a)
                ys == SortedInts(YearsOf(rowsA))
            IN [j \in 1..Len(ys) |->
                   LET c == AggCounts(SelectSeq(rowsA, LAMBDA r : r.Year = ys[j]))
                   IN [APREC |-> a, Year |-> ys[j],
                       total |-> c.total, violent |-> c.violent]]
    IN Concat([i \in 1..Len(as) |-> GroupsOf(as[i])])

\* df.groupby("AREA NAME").agg(...).reset_index(), APREC renamed.
df_by_area_of(frame) ==
    LET as == SortedStrings(Areas(frame))
    IN [i \in 1..Len(as) |->
           LET c == AggCounts(SelectSeq(frame, LAMBDA r : r.AREA_NAME = as[i]))
           IN [APREC |-> as[i], total |-> c.total, violent |-> c.violent]]

\* div_order_df.merge(right, on="APREC", how="left"): for every left row, in
\* order, the right rows of that name, or one row of NaN when there is none.
merge_left(divisions, right) ==
    LET RowsFor(name) ==
            LET hit == SelectSeq(right, LAMBDA r : r.APREC = name)
            IN IF hit = <<>>
               THEN << [APREC |-> name, total |-> NaN, violent |-> NaN] >>
               ELSE [k \in 1..Len(hit) |->
                        [APREC |-> name, total |-> F(hit[k].total),
                         violent |-> F(hit[k].violent)]]
    IN Concat([i \in 1..Len(divisions) |-> RowsFor(divisions[i])])

\* Lines 129-131 and 143-145: fill the counts, derive ratio and property.
Summarize(merged) ==
    [i \in 1..Len(merged) |->
        LET t == fillna(merged[i].total, 0)
            v == fillna(merged[i].violent, 0)
        IN [APREC |-> merged[i].APREC,
            total |-> t,
            violent |-> v,
            violent_ratio |-> fillna(Div(v, t), 0),
            property |-> clip_lower(Sub(t, v), 0)]]

\* year_map_data[y] for y in YEARS, and year_map_data["ALL"].
year_map_data_of(frame, divisions, y) ==
    IF y = ALL
    THEN Summarize(merge_left(divisions, df_by_area_of(frame)))
    ELSE Summarize(merge_left(divisions,
             LET dya == SelectSeq(df_year_area_of(frame), LAMBDA r : r.Year = y)
             IN [i \in 1..Len(dya) |->
                    [APREC |-> dya[i].APREC, total |-> dya[i].total,
                     violent |-> dya[i].violent]]))


(***************************************************************************)
(* Rankings.                                                               *)
(***************************************************************************)
Perms(n) == {p \in [1..n -> 1..n] : \A i, j \in 1..n : p[i] = p[j] => i = j}

\* The most rows a ranking can have.
NDescs == Cardinality({d \in RawDescs : d.isstr})

\* rows.groupby("Crm Cd Desc").size().reset_index(name="count"): one row per
\* description that occurs (null keys are dropped), in sorted key order.
groupby_size(rows) ==
    LET texts == {rows[i].Crm_Cd_Desc.s :
                     i \in {k \in 1..Len(rows) : rows[k].Crm_Cd_Desc.isstr}}
        keys == SortedStrings(texts)
    IN [i \in 1..Len(keys) |->
           [Crm_Cd_Desc |-> keys[i],
            count |-> Len(SelectSeq(rows,
                LAMBDA r : r.Crm_Cd_Desc.isstr /\ r.Crm_Cd_Desc.s = keys[i]))]]

\* What an ascending argsort may return for c.
ArgsortOutcomes(c) ==
    {p \in Perms(Len(c)) : \A i, j \in 1..Len(c) : i < j => c[p[i]] <= c[p[j]]}

\* sort_values is called without kind=, so it sorts with numpy's "quicksort",
\* which does not promise an order among equal keys.  A build's argsort is a
\* function of the array it is given; which one is left open.
QuicksortBuilds(arrays) ==
    {f \in [arrays -> UNION {Perms(n) : n \in 0..NDescs}] :
        \A c \in arrays : f[c] \in ArgsortOutcomes(c)}

\* sort_values("count", ascending=False): the row indexer.  pandas reverses
\* the column, argsorts it ascending and reverses the result.
sort_values_desc(counts, qs) ==
    LET n == Len(counts)
        rev == [i \in 1..n |-> counts[n + 1 - i]]
        p == qs[rev]
    IN [i \in 1..n |-> n + 1 - p[n + 1 - i]]

\* The ranking table of a set of rows: grouped, sorted by count descending,
\* with the Category column.
rank_of(rows, qs) ==
    LET g == groupby_size(rows)
        ix == sort_values_desc([i \in 1..Len(g) |-> g[i].count], qs)
    IN [i \in 1..Len(g) |->
           [Crm_Cd_Desc |-> g[ix[i]].Crm_Cd_Desc,
            count |-> g[ix[i]].count,
            Category |-> Category(Str(g[ix[i]].Crm_Cd_Desc))]]

\* The column sort_values hands to argsort when it ranks rows.
ArgsortInput(rows) ==
    LET g == groupby_size(rows)
        n == Len(g)
    IN [i \in 1..n |-> g[n + 1 - i].count]

\* The arrays argsort can be asked to sort in a run over frame: those of the
\* rankings of the whole frame, of one area, of one year, of one area and year.
SortedArrays(frame) ==
    {ArgsortInput(SelectSeq(frame, LAMBDA r :
            (a = <<>> \/ r.AREA_NAME = a) /\ (y = ALL \/ r.Year = y))) :
        a \in Areas(frame) \cup {<<>>}, y \in YearsOf(frame) \cup {ALL}}

\* city_rank_year[y]
city_rank_year_of(frame, qs, y) ==
    IF y = ALL THEN rank_of(frame, qs)
    ELSE rank_of(SelectSeq(frame, LAMBDA r : r.Year = y), qs)

\* The ranking of one division over all years (lines 241-249).
area_rank_of(frame, qs, area) ==
    rank_of(SelectSeq(frame, LAMBDA r : r.AREA_NAME = area), qs)

(***************************************************************************)
(* The figure.                                                             *)
(***************************************************************************)
ALL_DIVISIONS_LABEL == <<65,76,76,32,68,73,86,73,83,73,79,78,83>>  \* "ALL DIVISIONS"

year_options == <<ALL>> \o YEARS

\* The restyle payload of the year button for y (lines 349-372).
year_button_of(frame, divisions, qs, y) ==
    LET ydf == year_map_data_of(frame, divisions, y)
    IN [label |-> y,
        z |-> [i \in 1..Len(ydf) |-> ydf[i].violent_ratio],
        customdata |-> [i \in 1..Len(ydf) |->
                           <<ydf[i].total, ydf[i].violent, ydf[i].property>>],
        cells |-> city_rank_year_of(frame, qs, y)]

\* The division dropdown: "ALL DIVISIONS" first, then one button per area
\* name that occurs in the data, sorted (lines 239-321).
buttons_of(frame, qs) ==
    LET as == SortedStrings(Areas(frame))
    IN << [label |-> ALL_DIVISIONS_LABEL, cells |-> rank_of(frame, qs)] >>
       \o [i \in 1..Len(as) |->
              [label |-> as[i], cells |-> area_rank_of(frame, qs, as[i])]]

\* default_area = df_area.iloc[0]["AREA NAME"]: after the left merge of line
\* 100 the first row is the first feature, and its AREA NAME is NaN when no
\* record carries that name.
default_area_of(frame, divisions) ==
    IF divisions[1] \in Areas(frame) THEN Str(divisions[1]) ELSE None

\* The table the figure is built with (lines 192-217); nothing equals NaN.
initial_table_of(frame, divisions, qs) ==
    LET d == default_area_of(frame, divisions)
    IN rank_of(SelectSeq(frame, LAMBDA r : d.isstr /\ r.AREA_NAME = d.s), qs)

\* The choropleth trace built from init_df_area (lines 149-165).
initial_map_of(frame, divisions) ==
    LET ydf == year_map_data_of(frame, divisions, ALL)
    IN [locations |-> [i \in 1..Len(ydf) |-> ydf[i].APREC],
        z |-> [i \in 1..Len(ydf) |-> ydf[i].violent_ratio],
        customdata |-> [i \in 1..Len(ydf) |->
                           <<ydf[i].total, ydf[i].violent, ydf[i].property>>]]

(***************************************************************************)
(* State.                                                                  *)
(***************************************************************************)
VARIABLES
    df,             \* the cleaned DataFrame
    ALL_DIVISIONS,  \* APREC_UP of the features, in order
    quicksort,      \* the argsort of this build, on the arrays of this run
    year_map_data,  \* year key -> summary frame
    year_buttons,   \* the year dropdown
    buttons,        \* the division dropdown
    fig_map,        \* trace 0: the choropleth
    fig_table,      \* trace 1: the cells of the table
    year_active,    \* index of the active year button
    div_active      \* index of the active division button

data == <<df, ALL_DIVISIONS, quicksort, year_map_data, year_buttons, buttons>>
vars == <<df, ALL_DIVISIONS, quicksort, year_map_data, year_buttons, buttons,
          fig_map, fig_table, year_active, div_active>>

YearKeys == {year_options[i] : i \in 1..Len(year_options)}

\* The script, from the cleaned rows to fig.update_layout.
Init ==
    \E raw \in RawFrames, feats \in RawFeatureLists :
        /\ df = CleanFrame(raw)
        /\ ALL_DIVISIONS = NormalizeFeatures(feats)
        /\ quicksort \in QuicksortBuilds(SortedArrays(df))
        /\ year_map_data = [y \in YearKeys |->
                               year_map_data_of(df, ALL_DIVISIONS, y)]
        /\ year_buttons = [i \in 1..Len(year_options) |->
               year_button_of(df, ALL_DIVISIONS, quicksort, year_options[i])]
        /\ buttons = buttons_of(df, quicksort)
        /\ fig_map = initial_map_of(df, ALL_DIVISIONS)
        /\ fig_table = initial_table_of(df, ALL_DIVISIONS, quicksort)
        /\ year_active = 0
        /\ div_active = 0

\* The part of the figure the buttons act on.
figure ==
    [map |-> fig_map, table |-> fig_table,
     year_active |-> year_active, div_active |-> div_active]

\* A year button: method="restyle" of z and customdata on the map and of
\* cells.values on the table; the year menu shows the button as active.
restyle_year(fig, i) ==
    [fig EXCEPT !.map = [fig.map EXCEPT !.z = year_buttons[i].z,
                                        !.customdata = year_buttons[i].customdata],
                !.table = year_buttons[i].cells,
                !.year_active = i - 1]

\* The division button restyling the map as well, from the "ALL" summary.
update_division_ResetsMap(fig, j) ==
    [fig EXCEPT !.map = [fig.map EXCEPT !.z = year_buttons[1].z,
                                        !.customdata = year_buttons[1].customdata],
                !.table = buttons[j].cells,
                !.div_active = j - 1]

\* A division button (or "ALL DIVISIONS"): method="update" of the cells of
\* the table trace alone; the division menu shows the button as active.
update_division(fig, j) ==
    [fig EXCEPT !.table = buttons[j].cells,
                !.div_active = j - 1]

SetFigure(fig) ==
    /\ fig_map' = fig.map
    /\ fig_table' = fig.table
    /\ year_active' = fig.year_active
    /\ div_active' = fig.div_active

YearButton(i) ==
    /\ i \in 1..Len(year_buttons)
    /\ SetFigure(restyle_year(figure, i))
    /\ UNCHANGED data

DivisionButton(j) ==
    /\ j \in 1..Len(buttons)
    /\ SetFigure(update_division(figure, j))
    /\ UNCHANGED data

Next ==
    \/ \E i \in 1..Len(year_options) : YearButton(i)
    \/ \E j \in 1..Len(buttons) : DivisionButton(j)

Spec == Init /\ [][Next]_vars

(***************************************************************************)
(* The selection the two menus show, and what the claims measure against.  *)
(***************************************************************************)
\* The year bucket of the active year button (ALL for "ALL").
selected_year == year_options[year_active + 1]

\* No division is selected when "ALL DIVISIONS" is the active button.
NoDivisionSelected == div_active = 0
selected_division == buttons[div_active + 1].label

\* The canonical divisions: the names the boundary provider supplies.
Canonical == {ALL_DIVISIONS[i] : i \in 1..Len(ALL_DIVISIONS)}

\* The rows of area d in year bucket y.
RowsOf(d, y) ==
    SelectSeq(df, LAMBDA r : r.AREA_NAME = d /\ (y = ALL \/ r.Year = y))

\* The table source the derivation rule names for a selection.
DerivedTable(y, none, d) ==
    IF none THEN city_rank_year_of(df, quicksort, y)
    ELSE rank_of(RowsOf(d, y), quicksort)

\* The map coloring drawn from a summary frame.
ColoringOf(ydf) ==
    [locations |-> [i \in 1..Len(ydf) |-> ydf[i].APREC],
     z |-> [i \in 1..Len(ydf) |-> ydf[i].violent_ratio],
     customdata |-> [i \in 1..Len(ydf) |->
                        <<ydf[i].total, ydf[i].violent, ydf[i].property>>]]

(***************************************************************************)
(* C1                                                                      *)
(***************************************************************************)
\* C1: after every set_year / click_division event the table shows the
\* ranking determined by (selected_year, selected_division): the ranking of
\* the selected division restricted to the selected year, or the citywide
\* ranking of the selected year when no division is selected.
C1_TableFollowsSelection ==
    [][fig_table' =
          DerivedTable(selected_year', NoDivisionSelected', selected_division')]_vars

(***************************************************************************)
(* C2                                                                      *)
(***************************************************************************)
\* C2: for every division d that has records, from any state,
\* click_division(d) then set_year(ALL) leaves the same table as
\* set_year(ALL) then click_division(d).
C2_FiltersCommute ==
    \A j \in 2..Len(buttons) :
        restyle_year(update_division(figure, j), 1).table
            = update_division(restyle_year(figure, 1), j).table

(***************************************************************************)
(* C3                                                                      *)
(***************************************************************************)
\* C3: for every canonical division d and every year bucket y, the summary
\* for y holds exactly one entry for d.
C3_OneEntryPerDivision ==
    \A y \in YearKeys : \A d \in Canonical :
        Cardinality({i \in 1..Len(year_map_data[y]) :
                        year_map_data[y][i].APREC = d}) = 1

(***************************************************************************)
(* C4                                                                      *)
(***************************************************************************)
\* C4: every summary row of every year bucket has 0 <= violent <= total, and
\* a violent_ratio that is a number: violent/total when total > 0, and 0
\* when total = 0.
C4_SummaryWellFormed ==
    \A y \in YearKeys : \A i \in 1..Len(year_map_data[y]) :
        LET r == year_map_data[y][i]
        IN /\ ~r.total.nan /\ r.total.den = 1
           /\ ~r.violent.nan /\ r.violent.den = 1
           /\ 0 <= r.violent.num /\ r.violent.num <= r.total.num
           /\ ~r.violent_ratio.nan /\ r.violent_ratio.den > 0
           /\ r.total.num > 0 =>
                 r.violent_ratio.num * r.total.num
                     = r.violent.num * r.violent_ratio.den
           /\ r.total.num = 0 => r.violent_ratio.num = 0

\* C4 witness: some bucket holds a division whose records all lack a
\* description (0/0 with a group present), some bucket a division with no
\* rows at all (0/0 after the merge), and some bucket a division with a
\* violent record (a ratio above 0).
C4_Witness ==
    /\ \E y \in YearKeys : \E i \in 1..Len(year_map_data[y]) :
          /\ year_map_data[y][i].total.num = 0
          /\ RowsOf(year_map_data[y][i].APREC, y) # <<>>
    /\ \E y \in YearKeys : \E i \in 1..Len(year_map_data[y]) :
          /\ year_map_data[y][i].total.num = 0
          /\ RowsOf(year_map_data[y][i].APREC, ALL) = <<>>
    /\ \E y \in YearKeys : \E i \in 1..Len(year_map_data[y]) :
          /\ 0 < year_map_data[y][i].violent.num
          /\ 0 < year_map_data[y][i].violent_ratio.num

(***************************************************************************)
(* C5                                                                      *)
(***************************************************************************)
\* C5: before any event the selection is (ALL, NONE), the map is colored
\* from the all-time summary and the table shows the citywide all-time
\* ranking.
C5_InitialViews ==
    /\ selected_year = ALL
    /\ NoDivisionSelected
    /\ fig_map = ColoringOf(year_map_data[ALL])
    /\ fig_table = DerivedTable(ALL, TRUE, <<>>)
    /\ [][TRUE]_vars

(***************************************************************************)
(* C6                                                                      *)
(***************************************************************************)
\* The frame without its row i.
WithoutRow(frame, i) ==
    [k \in 1..(Len(frame) - 1) |-> IF k < i THEN frame[k] ELSE frame[k + 1]]

\* C6: a record whose description is null counts in the total of its
\* division's summary, for its year and for ALL, and not in violent: with
\* the record the total is one more than without it, violent is the same.
C6_NullDescriptionCounted ==
    \A i \in 1..Len(df) :
        ~df[i].Crm_Cd_Desc.isstr =>
            \A y \in {df[i].Year, ALL} \cap YearKeys :
                LET with == year_map_data[y]
                    without == year_map_data_of(WithoutRow(df, i), ALL_DIVISIONS, y)
                IN \A k \in 1..Len(with) :
                       with[k].APREC = df[i].AREA_NAME =>
                           /\ with[k].total.num = without[k].total.num + 1
                           /\ with[k].violent = without[k].violent

(***************************************************************************)
(* C7                                                                      *)
(***************************************************************************)
\* C7: click_division(d) is accepted for every canonical division d, and
\* when d has no records under the current year filter the table then shows
\* an empty ranking.
C7_ClickAcceptedAndEmpty ==
    \A d \in Canonical :
        /\ \E j \in 2..Len(buttons) : buttons[j].label = d
        /\ RowsOf(d, selected_year) = <<>> =>
              \A j \in 2..Len(buttons) :
                  buttons[j].label = d => update_division(figure, j).table = <<>>

(***************************************************************************)
(* C8                                                                      *)
(***************************************************************************)
\* The map is colored from the summary of the selected year.
MapShowsSelectedYear == fig_map = ColoringOf(year_map_data[selected_year])

\* A step that is a click on a button of the division menu.
DivisionClick == \E j \in 1..Len(buttons) : SetFigure(update_division(figure, j))

\* C8: initially and after every event the map coloring is the summary of
\* the most recently selected year (the all-time one when none was selected
\* or ALL was); a click on a division leaves selected_year and the map
\* coloring as they were.
C8_MapFollowsYear ==
    /\ MapShowsSelectedYear
    /\ [][/\ MapShowsSelectedYear'
          /\ DivisionClick => (year_active' = year_active /\ fig_map' = fig_map)]_vars

\* C8 witness: a year other than ALL is selected whose coloring differs from
\* the all-time one, and a division was clicked after it (the table shows
\* that division's ranking, which is not the year's citywide ranking).
C8_Witness ==
    /\ selected_year # ALL
    /\ fig_map # ColoringOf(year_map_data[ALL])
    /\ ~NoDivisionSelected
    /\ fig_table = buttons[div_active + 1].cells
    /\ fig_table # year_buttons[year_active + 1].cells

(***************************************************************************)
(* C9                                                                      *)
(***************************************************************************)
\* C9: a division name that occurs in the records and is not canonical is
\* kept by the aggregation: every summary carries an entry under that name
\* with its record counts, the division rankings carry its ranking, and the
\* entry matches no boundary feature of the map.
C9_NonCanonicalCarried ==
    \A d \in Areas(df) \ Canonical :
        /\ \A y \in YearKeys :
              \E i \in 1..Len(year_map_data[y]) :
                  /\ year_map_data[y][i].APREC = d
                  /\ year_map_data[y][i].total = F(AggCounts(RowsOf(d, y)).total)
                  /\ year_map_data[y][i].violent = F(AggCounts(RowsOf(d, y)).violent)
        /\ \E j \in 2..Len(buttons) :
              /\ buttons[j].label = d
              /\ buttons[j].cells = area_rank_of(df, quicksort, d)
        /\ \A i \in 1..Len(fig_map.locations) : fig_map.locations[i] # d

(***************************************************************************)
(* C10                                                                     *)
(***************************************************************************)
\* A ranking of rows: every description of rows once, with the number of
\* rows that carry it, counts non-increasing, and rows of equal count in the
\* order in which the grouping produced them.
IsStableRanking(t, rows) ==
    LET g == groupby_size(rows)
        Pos(desc) == CHOOSE k \in 1..Len(g) : g[k].Crm_Cd_Desc = desc
    IN /\ Len(t) = Len(g)
       /\ \A k \in 1..Len(g) :
             Cardinality({i \in 1..Len(t) : t[i].Crm_Cd_Desc = g[k].Crm_Cd_Desc}) = 1
       /\ \A i \in 1..Len(t) :
             t[i].count = Cardinality({k \in 1..Len(rows) :
                              rows[k].Crm_Cd_Desc = Str(t[i].Crm_Cd_Desc)})
       /\ \A i, j \in 1..Len(t) :
             i < j => /\ t[i].count >= t[j].count
                      /\ t[i].count = t[j].count =>
                            Pos(t[i].Crm_Cd_Desc) < Pos(t[j].Crm_Cd_Desc)

C11_AllIsSumOfYears ==
    \A k \in 1..Len(year_map_data[ALL]) :
        /\ year_map_data[ALL][k].total.num
              = Sum([n \in 1..Len(YEARS) |-> year_map_data[YEARS[n]][k].total.num])
        /\ year_map_data[ALL][k].violent.num
              = Sum([n \in 1..Len(YEARS) |-> year_map_data[YEARS[n]][k].violent.num])

=============================================================================
